---- MODULE Spec2Model ----
(***************************************************************************)
(* A model of main.py, the sdarot.tv download agent.                       *)
(*                                                                         *)
(* main() runs download(show_id, range(first_season, last_season + 1)):    *)
(* a sequential loop that lists every season's episodes, creates the       *)
(* season directory and builds the missions, followed by a                 *)
(* ThreadPoolExecutor of NUMBER_OF_PARALLEL_MISSIONS workers that runs     *)
(* run_mission on every mission while the main thread iterates pool.map    *)
(* and updates the progress bar.                                           *)
(*                                                                         *)
(* The library behaviour the program relies on is modelled as Python       *)
(* defines it: Executor.map yields the results in submission order and,    *)
(* when a result raises, cancels the futures that have not started;        *)
(* leaving the `with` block calls shutdown(wait=True); a worker skips a    *)
(* cancelled work item; `except Exception` in run_mission_async guards     *)
(* the load_episode call only.                                             *)
(***************************************************************************)
EXTENDS Integers, Sequences, FiniteSets, Bags, TLC

(* ---- bounds of the model ---- *)
MaxSeason == 2
MaxEpisode == 2
MaxListLen == 2
\* the most missions a run from main's arguments builds
MaxBuilt == 2
\* the largest batch handed to the pool on its own
MaxMissions == 5
\* the largest batch whose complete runs are checked under fairness
MaxFairMissions == 4

(* ---- program constants ---- *)
NUMBER_OF_PARALLEL_MISSIONS == 4

SeasonArgs == 0..MaxSeason
Episodes == 1..MaxEpisode
ShowIds == {"82"}

\* HTTP statuses a server answers with; only 200 is accepted by the code.
Statuses == {200, 206, 404}

\* The episode numbers EPISODE_REGEX finds in a listing page, in page order.
Listings == UNION {[1..n -> Episodes] : n \in 0..MaxListLen}

Paths == SeasonArgs \X Episodes

VARIABLES
    show_id,        \* main's arguments
    first_season,
    last_season,
    season,         \* download: the loop variable of `for season in seasons`
    missions,       \* download: the list of Mission tuples built so far
    dirs,           \* file system: the seasons whose Season_{n} directory exists
    files,          \* file system: content of Season_{s}/Episode_{e}.mp4
    pc,             \* where the main thread (download) is
    error,          \* the exception that left download, "none" if none
    st,             \* per mission: where its future / run_mission is
    sessions,       \* missions whose Firefox driver is open (not yet quit)
    resolved,       \* missions whose load_episode has returned a stream
    download_calls, \* missions for which download_video has been called
    counted,        \* missions whose result pool.map has yielded
    progress,       \* progress_bar.n
    log,            \* bag of the failure lines printed
    fault,          \* per mission: the stage at which its environment failed
    listed,         \* per season done: the list get_episodes returned
    stream,         \* per mission: what its load_episode returned
    request         \* per mission: what download_video was called with

vars == <<show_id, first_season, last_season, season, missions, dirs, files,
          pc, error, st, sessions, resolved, download_calls, counted,
          progress, log, fault, listed, stream, request>>

args == <<show_id, first_season, last_season>>

\* The missions submitted to the pool (none before pool.map is called).
Idx == DOMAIN st

Queued == "queued"
Cancelled == "cancelled"
Running == {"load_episode", "driver", "download_video", "write"}
Returned == {"Success", "ResolveFailed", "DownloadFailed"}
Completed == Returned \cup {"Raised"}

InFlight == {i \in Idx : st[i] \in Running}

(* ---- Mission Builder ---- *)

\* Mission(season, episode, episode_url, episode_output)
Mission(show, s, e) ==
    [season |-> s, episode |-> e,
     url |-> <<"https://sdarot.tv/watch", show, "season", s, "episode", e>>,
     output |-> <<s, e>>]

\* Mutant of SeasonMissions: each mission is inserted at the head of the
\* list, so a season's missions come out in reverse listing order.
SeasonMissions_Reversed(show, s, episodes) ==
    [k \in 1..Len(episodes) |->
        Mission(show, s, episodes[Len(episodes) + 1 - k])]

RECURSIVE SeasonMissions(_, _, _)
SeasonMissions(show, s, episodes) ==
    IF episodes = <<>> THEN <<>>
    ELSE <<Mission(show, s, Head(episodes))>>
         \o SeasonMissions(show, s, Tail(episodes))

\* get_episodes: the list returned for a response with this status and page.
get_episodes(status, page) ==
    IF ~(status = 200) THEN <<>> ELSE page

Init ==
    /\ show_id \in ShowIds
    /\ first_season \in 1..MaxSeason
    /\ last_season \in SeasonArgs
    /\ season = first_season
    /\ missions = <<>>
    /\ dirs \in SUBSET {first_season}
    /\ files = [p \in Paths |-> IF p[1] \in dirs THEN "old" ELSE "absent"]
    /\ pc = "build"
    /\ error = "none"
    /\ st = <<>>
    /\ sessions = {}
    /\ resolved = {}
    /\ download_calls = {}
    /\ counted = {}
    /\ progress = 0
    /\ log = EmptyBag
    /\ fault = <<>>
    /\ listed = <<>>
    /\ stream = <<>>
    /\ request = <<>>

pool_vars == <<st, sessions, resolved, download_calls, counted, progress, log,
               fault, stream, request>>

\* get_episodes: session.get raises (transport failure); nothing catches it,
\* so it leaves download.
ListingRaises ==
    /\ pc = "build"
    /\ season <= last_season
    /\ pc' = "raised"
    /\ error' = "ClientError"
    /\ UNCHANGED <<args, season, missions, dirs, files, listed, pool_vars>>

\* Mutant of NeedsMkdir: os.mkdir is called without looking whether the
\* directory exists.
NeedsMkdir_Always(ds, s) ==
    TRUE

\* `if not os.path.exists(season_directory)`: whether os.mkdir is called.
NeedsMkdir(ds, s) ==
    s \notin ds

\* Mutant of MadeDir: the directory is created inside the episode loop, so
\* only for a season that has an episode.
MadeDir_WithEpisode(ds, s, episodes) ==
    IF episodes = <<>> THEN ds ELSE ds \cup {s}

\* os.mkdir(season_directory) succeeded, whatever the listing returned.
MadeDir(ds, s, episodes) ==
    ds \cup {s}

\* os.mkdir raises (FileExistsError when the directory is there, or any
\* other OSError); nothing catches it.
MkdirRaises ==
    /\ pc = "build"
    /\ season <= last_season
    /\ NeedsMkdir(dirs, season)
    /\ pc' = "raised"
    /\ error' = "OSError"
    /\ UNCHANGED <<args, season, missions, dirs, files, listed, pool_vars>>

\* One iteration of `for season in seasons`.
BuildSeason ==
    /\ pc = "build"
    /\ season <= last_season
    /\ \E status \in Statuses, page \in Listings :
         LET episodes == get_episodes(status, page) IN
         /\ Len(missions) + Len(episodes) <= MaxBuilt
         /\ missions' = missions \o SeasonMissions(show_id, season, episodes)
         /\ listed' = Append(listed, [season |-> season, episodes |-> episodes])
         /\ IF NeedsMkdir(dirs, season)
            THEN /\ season \notin dirs     \* else os.mkdir raises
                 /\ dirs' = MadeDir(dirs, season, episodes)
            ELSE dirs' = dirs
    /\ season' = season + 1
    /\ UNCHANGED <<args, files, pc, error, pool_vars>>

(* ---- Batch Orchestrator: the pool ---- *)

\* What a mission holds before its load_episode has returned: no stream
\* address and no cookies.
NoStream ==
    [src |-> <<>>, cookies |-> <<>>]

\* `with ThreadPoolExecutor(...) as pool, tqdm(total=len(missions))`, then
\* pool.map submits every mission before the first result is asked for.
StartPool ==
    /\ pc = "build"
    /\ season > last_season
    /\ st' = [i \in 1..Len(missions) |-> Queued]
    /\ fault' = [i \in 1..Len(missions) |-> "none"]
    /\ stream' = [i \in 1..Len(missions) |-> NoStream]
    /\ request' = [i \in 1..Len(missions) |-> NoStream]
    /\ progress' = 0
    /\ pc' = "map"
    /\ UNCHANGED <<listed, args, season, missions, dirs, files, error, sessions,
                   resolved, download_calls, counted, log>>

\* Mutant of WorkerFree: the pool is created without max_workers, so a thread
\* is started for every mission.
WorkerFree_Unbounded ==
    Cardinality(InFlight) < Len(missions) + 1

\* A worker thread of the pool is idle (max_workers threads, one work item
\* each at a time).
WorkerFree ==
    Cardinality(InFlight) < NUMBER_OF_PARALLEL_MISSIONS

\* The work queue is FIFO: the next item a worker takes is the oldest one
\* that is still queued (a cancelled item is taken and skipped).
NextQueued(i) ==
    /\ st[i] = Queued
    /\ \A j \in Idx : j < i => st[j] # Queued

\* A worker takes mission i: run_mission starts a new event loop, and
\* run_mission_async hands load_episode to the loop's executor.
StartMission(i) ==
    /\ pc \in {"map", "shutdown"}
    /\ NextQueued(i)
    /\ WorkerFree
    /\ st' = [st EXCEPT ![i] = "load_episode"]
    /\ UNCHANGED <<listed, stream, request,
                   fault, args, season, missions, dirs, files, pc, error, sessions,
                   resolved, download_calls, counted, progress, log>>

(* ---- Mission Runner and Resolver ---- *)

FailureLine(kind, i) ==
    [kind |-> kind, season |-> missions[i].season,
     episode |-> missions[i].episode]

print(l, line) == l (+) SetToBag({line})

\* webdriver.Firefox() raises inside load_episode, before quit_web is
\* entered: no session was opened. run_mission_async catches it, prints
\* and returns.
DriverFails(i) ==
    /\ st[i] = "load_episode"
    /\ st' = [st EXCEPT ![i] = "ResolveFailed"]
    /\ log' = print(log, FailureLine("url", i))
    /\ fault' = [fault EXCEPT ![i] = "resolve"]
    /\ UNCHANGED <<listed, stream, request,
                   args, season, missions, dirs, files, pc, error, sessions,
                   resolved, download_calls, counted, progress>>

\* webdriver.Firefox() returns a driver and quit_web yields it.
OpenDriver(i) ==
    /\ st[i] = "load_episode"
    /\ st' = [st EXCEPT ![i] = "driver"]
    /\ sessions' = sessions \cup {i}
    /\ UNCHANGED <<listed, stream, request,
                   fault, args, season, missions, dirs, files, pc, error,
                   resolved, download_calls, counted, progress, log>>

\* The ways the body of the `with quit_web(...)` block is left.
LoadExits ==
    {"return",                \* video src and cookies returned
     "timeout_afterLoad",     \* WebDriverWait(driver, 40) timed out
     "no_proceed",            \* find_element_by_id("proceed") found nothing
     "timeout_video",         \* WebDriverWait(driver, 5) timed out
     "webdriver_error"}       \* driver.get, click, get_cookies ... raised

\* Mutant of quit_web: driver.quit() follows the yield without try/finally,
\* so it runs only when the block is left normally.
quit_web_NoFinally(open, i, exit) ==
    IF exit = "return" THEN open \ {i} ELSE open

\* quit_web: the `finally` clause calls driver.quit() however the block
\* is left.
quit_web(open, i, exit) ==
    open \ {i}

\* Mutant of AfterLoadEpisode: the except clause lacks its `return`, so
\* download_video is called after a failed resolve too.
AfterLoadEpisode_NoReturn(exit) ==
    "download_video"

\* Mutant of AfterLoadEpisode: no try/except around load_episode, so its
\* exception leaves run_mission.
AfterLoadEpisode_Uncaught(exit) ==
    IF exit = "return" THEN "download_video" ELSE "Raised"

\* run_mission_async after load_episode: an exception is caught, a line is
\* printed and the coroutine returns; otherwise download_video is called.
AfterLoadEpisode(exit) ==
    IF exit = "return" THEN "download_video" ELSE "ResolveFailed"

\* What load_episode returns for mission i: the src of the video element of
\* the episode's page and the cookies of the driver's own session.
StreamOf(i) ==
    [src |-> <<"video", missions[i].url>>, cookies |-> <<"session", i>>]

\* Mutant of DownloadArgs: the stream and cookies are kept in a variable
\* shared by the missions, set by the first resolve that returns.
DownloadArgs_Shared(streams, i) ==
    streams[CHOOSE j \in DOMAIN streams :
              /\ streams[j] # NoStream
              /\ \A k \in DOMAIN streams : streams[k] # NoStream => j <= k]

\* download_video(video_url, mission.output, cookies=cookies): the locals
\* the same coroutine got from its own load_episode.
DownloadArgs(streams, i) ==
    streams[i]

\* load_episode leaves the `with` block of mission i's driver.
LoadEpisode(i) ==
    /\ st[i] = "driver"
    /\ \E exit \in LoadExits :
         LET next == AfterLoadEpisode(exit) IN
         /\ sessions' = quit_web(sessions, i, exit)
         /\ st' = [st EXCEPT ![i] = next]
         /\ resolved' = IF exit = "return" THEN resolved \cup {i} ELSE resolved
         /\ download_calls' = IF next = "download_video"
                              THEN download_calls \cup {i} ELSE download_calls
         /\ log' = IF exit = "return" THEN log
                   ELSE print(log, FailureLine("url", i))
         /\ fault' = IF exit = "return" THEN fault
                     ELSE [fault EXCEPT ![i] = "resolve"]
         /\ stream' = IF exit = "return"
                      THEN [stream EXCEPT ![i] = StreamOf(i)] ELSE stream
         /\ request' = IF next = "download_video"
                       THEN [request EXCEPT ![i] = DownloadArgs(stream', i)]
                       ELSE request
    /\ UNCHANGED <<listed, args, season, missions, dirs, files, pc, error, counted,
                   progress>>

(* ---- Downloader ---- *)

\* Mutant of OpenedFile: the output is opened before the status is looked at.
OpenedFile_OpenFirst(status, content) ==
    "partial"

\* download_video: the output file after the response arrived and, for a
\* status of 200, aiofiles.open(output, mode='wb') succeeded.
OpenedFile(status, content) ==
    IF ~(status = 200) THEN content ELSE "partial"

\* session.get raises (transport failure): the exception leaves
\* download_video, run_mission_async and run_mission, and is stored in the
\* mission's future.
GetRaises(i) ==
    /\ st[i] = "download_video"
    /\ st' = [st EXCEPT ![i] = "Raised"]
    /\ fault' = [fault EXCEPT ![i] = "download"]
    /\ UNCHANGED <<listed, stream, request,
                   args, season, missions, dirs, files, pc, error, sessions,
                   resolved, download_calls, counted, progress, log>>

\* The response has a status other than 200: download_video returns False
\* and run_mission_async prints the failure.
GetNotOk(i) ==
    /\ st[i] = "download_video"
    /\ \E status \in Statuses \ {200} :
         files' = [files EXCEPT
                     ![missions[i].output] = OpenedFile(status, @)]
    /\ st' = [st EXCEPT ![i] = "DownloadFailed"]
    /\ log' = print(log, FailureLine("video", i))
    /\ fault' = [fault EXCEPT ![i] = "download"]
    /\ UNCHANGED <<listed, stream, request,
                   args, season, missions, dirs, pc, error, sessions,
                   resolved, download_calls, counted, progress>>

\* Status 200, and aiofiles.open raises (OSError): nothing catches it.
OpenRaises(i) ==
    /\ st[i] = "download_video"
    /\ st' = [st EXCEPT ![i] = "Raised"]
    /\ fault' = [fault EXCEPT ![i] = "download"]
    /\ UNCHANGED <<listed, stream, request,
                   args, season, missions, dirs, files, pc, error, sessions,
                   resolved, download_calls, counted, progress, log>>

\* Status 200, and the output file is opened for writing (truncated).
OpenOutput(i) ==
    /\ st[i] = "download_video"
    /\ files' = [files EXCEPT ![missions[i].output] = OpenedFile(200, @)]
    /\ st' = [st EXCEPT ![i] = "write"]
    /\ UNCHANGED <<listed, stream, request,
                   fault, args, season, missions, dirs, pc, error, sessions,
                   resolved, download_calls, counted, progress, log>>

\* iter_chunks or f.write raises in mid-stream: what was written stays.
WriteRaises(i) ==
    /\ st[i] = "write"
    /\ st' = [st EXCEPT ![i] = "Raised"]
    /\ fault' = [fault EXCEPT ![i] = "download"]
    /\ UNCHANGED <<listed, stream, request,
                   args, season, missions, dirs, files, pc, error, sessions,
                   resolved, download_calls, counted, progress, log>>

\* Every chunk is written, the file is closed, download_video returns True.
WriteAll(i) ==
    /\ st[i] = "write"
    /\ files' = [files EXCEPT ![missions[i].output] = "full"]
    /\ st' = [st EXCEPT ![i] = "Success"]
    /\ UNCHANGED <<listed, stream, request,
                   fault, args, season, missions, dirs, pc, error, sessions,
                   resolved, download_calls, counted, progress, log>>

(* ---- Batch Orchestrator: draining pool.map ---- *)

Uncounted == Idx \ counted

\* Mutant of NextFuture: the results are drained with as_completed, any
\* finished future is yielded.
NextFuture_AsCompleted(k) ==
    /\ k \in Idx \ counted
    /\ st[k] \in Completed

\* Executor.map's result iterator pops the futures in submission order: the
\* future it waits for is the oldest one not yet yielded.
NextFuture(k) ==
    /\ k \in Uncounted
    /\ \A j \in Uncounted : k <= j

\* Mutant of ResultReady: the loop runs over the submitted futures without
\* asking for their results, so it does not wait for the mission.
ResultReady_NoWait(s) ==
    s # "Raised"

\* future.result() returns once the mission has returned.
ResultReady(s) ==
    s \in Returned

\* `for _ in pool.map(...)`: the awaited result arrives,
\* progress_bar.update(1).
NextResult ==
    /\ pc = "map"
    /\ \E k \in Idx :
         /\ NextFuture(k)
         /\ ResultReady(st[k])
         /\ counted' = counted \cup {k}
    /\ progress' = progress + 1
    /\ UNCHANGED <<listed, stream, request,
                   fault, args, season, missions, dirs, files, pc, error, st,
                   sessions, resolved, download_calls, log>>

\* The awaited future holds an exception: result() raises it in the main
\* thread, the result iterator's `finally` cancels the futures not yet
\* yielded (only those that have not started can be cancelled), and the
\* `with` block is left.
ResultRaises ==
    /\ pc = "map"
    /\ \E k \in Idx :
         /\ NextFuture(k)
         /\ st[k] = "Raised"
    /\ st' = [i \in Idx |-> IF st[i] = Queued THEN Cancelled ELSE st[i]]
    /\ error' = "mission"
    /\ pc' = "shutdown"
    /\ UNCHANGED <<listed, stream, request,
                   fault, args, season, missions, dirs, files, sessions, resolved,
                   download_calls, counted, progress, log>>

\* The iterator is exhausted: the `with` block is left normally.
MapDone ==
    /\ pc = "map"
    /\ Uncounted = {}
    /\ pc' = "shutdown"
    /\ UNCHANGED <<args, season, missions, dirs, files, error, listed,
                   pool_vars>>

\* ThreadPoolExecutor.__exit__ is shutdown(wait=True): it returns when the
\* workers have drained the queue and finished what they were running.
PoolIdle ==
    \A i \in Idx : st[i] \notin Running \cup {Queued}

Shutdown ==
    /\ pc = "shutdown"
    /\ PoolIdle
    /\ pc' = IF error = "none" THEN "returned" ELSE "raised"
    /\ UNCHANGED <<args, season, missions, dirs, files, error, listed,
                   pool_vars>>

\* The pool: the workers and the main thread draining pool.map.
PoolNext ==
    \/ StartPool
    \/ \E i \in Idx : StartMission(i)
    \/ \E i \in Idx : DriverFails(i)
    \/ \E i \in Idx : OpenDriver(i)
    \/ \E i \in Idx : LoadEpisode(i)
    \/ \E i \in Idx : GetRaises(i)
    \/ \E i \in Idx : GetNotOk(i)
    \/ \E i \in Idx : OpenRaises(i)
    \/ \E i \in Idx : OpenOutput(i)
    \/ \E i \in Idx : WriteRaises(i)
    \/ \E i \in Idx : WriteAll(i)
    \/ NextResult
    \/ ResultRaises
    \/ MapDone
    \/ Shutdown

Next ==
    \/ ListingRaises
    \/ MkdirRaises
    \/ BuildSeason
    \/ PoolNext

\* The whole program, from main's arguments.
Spec == Init /\ [][Next]_vars

\* The listing of a season with n entries that cycles through the episode
\* numbers (so that entries repeat once n exceeds MaxEpisode).
Page(n) == [i \in 1..n |-> ((i - 1) % MaxEpisode) + 1]

\* download() at line 105, after the loop has built a batch of up to
\* `most` missions for season 1 of the show; the first episode's file is
\* left from an earlier run.
BuiltBatch(most) ==
    /\ show_id \in ShowIds
    /\ first_season = 1
    /\ last_season = 1
    /\ season = last_season + 1
    /\ \E n \in 0..most :
         /\ missions = SeasonMissions(show_id, 1, Page(n))
         /\ listed = <<[season |-> 1, episodes |-> Page(n)]>>
    /\ dirs = {1}
    /\ files = [p \in Paths |-> IF p[2] = 1 THEN "old" ELSE "absent"]
    /\ pc = "build"
    /\ error = "none"
    /\ st = <<>>
    /\ sessions = {}
    /\ resolved = {}
    /\ download_calls = {}
    /\ counted = {}
    /\ progress = 0
    /\ log = EmptyBag
    /\ fault = <<>>
    /\ stream = <<>>
    /\ request = <<>>

PoolInit == BuiltBatch(MaxMissions)

\* The batch orchestrator and its pool, for every batch size up to
\* MaxMissions.
PoolSpec == PoolInit /\ [][PoolNext]_vars

FairPoolInit == BuiltBatch(MaxFairMissions)

\* The threads are scheduled and every external operation ends (the
\* rendering waits are bounded, the HTTP client has its timeouts): a step
\* that stays possible is eventually taken.
FairPoolSpec == FairPoolInit /\ [][PoolNext]_vars /\ WF_vars(PoolNext)

Ended == pc \in {"returned", "raised"}

\* main: the exit status of the process once asyncio.run(download(...)) is
\* over: success when download returned, the interpreter's status for an
\* uncaught exception when it raised. Nothing else sets a status.
EXIT_SUCCESS == 0
EXIT_UNCAUGHT == 1
ExitCode ==
    IF pc = "raised" THEN EXIT_UNCAUGHT ELSE EXIT_SUCCESS

TypeOK ==
    /\ pc \in {"build", "map", "shutdown", "returned", "raised"}
    /\ Len(missions) <= MaxMissions
    /\ Idx \in {{}, 1..Len(missions)}
    /\ \A i \in DOMAIN st : st[i] \in Running \cup Completed \cup {Queued, Cancelled}
    /\ sessions \subseteq Idx
    /\ counted \subseteq Idx
    /\ progress \in 0..MaxMissions
(* ---- the claims ---- *)

Resolving == {i \in Idx : st[i] \in {"load_episode", "driver"}}
Downloading == {i \in Idx : st[i] \in {"download_video", "write"}}

\* C1: no error escapes run_mission: whatever fails in the resolve or the
\* download stage of a mission, its future never holds an exception and
\* none reaches download() from the pool.
C1_NoErrorEscapes ==
    /\ \A i \in Idx : st[i] # "Raised"
    /\ error # "mission"

\* C2: when the batch orchestrator ends, every mission handed to the pool
\* has been run and counted exactly once: the progress bar stands at the
\* number of missions.
C2_OneIncrementPerMission ==
    Ended =>
        /\ progress = Len(missions)
        /\ counted = 1..Len(missions)
        /\ \A i \in Idx : st[i] \in Completed

\* C3: download_video is called for a mission only after that mission's
\* load_episode has returned; a mission whose resolve failed or has not
\* returned yet has no download.
C3_DownloadAfterResolve ==
    /\ download_calls \subseteq resolved
    /\ \A i \in Idx :
         /\ st[i] \in {"download_video", "write"} => i \in resolved
         /\ st[i] \in {Queued, "load_episode", "driver", "ResolveFailed"}
              => i \notin download_calls

C3_Witness ==
    \E i, j \in Idx :
        /\ st[i] = "ResolveFailed"
        /\ fault[i] = "resolve"
        /\ j \in download_calls

\* C4: at most NUMBER_OF_PARALLEL_MISSIONS missions are in flight, so at
\* most that many load_episode calls and that many downloads run at once.
C4_AtMostFourInFlight ==
    /\ Cardinality(InFlight) <= NUMBER_OF_PARALLEL_MISSIONS
    /\ Cardinality(Resolving) <= NUMBER_OF_PARALLEL_MISSIONS
    /\ Cardinality(Downloading) <= NUMBER_OF_PARALLEL_MISSIONS

\* Four resolves run at once while a fifth mission waits for a worker.
C4_Witness ==
    /\ Cardinality(Resolving) = NUMBER_OF_PARALLEL_MISSIONS
    /\ \E i \in Idx : st[i] = Queued

\* C5: download() ends only when every submitted mission has completed, and
\* no mission is ever cancelled or skipped because another one failed.
C5_NoMissionCancelled ==
    /\ \A i \in Idx : st[i] # Cancelled
    /\ Ended => \A i \in Idx : st[i] \in Completed

\* C6: a batch in which exactly one mission's resolve fails and nothing else
\* fails runs to the end (every batch ends), and there download() has
\* returned normally, all the other missions are downloaded, every mission
\* is counted and exactly one failure line is printed.
OneResolveFails ==
    /\ Cardinality({i \in Idx : fault[i] = "resolve"}) = 1
    /\ \A i \in Idx : fault[i] # "download"

C6_Outcome ==
    /\ pc = "returned"
    /\ error = "none"
    /\ progress = Len(missions)
    /\ BagCardinality(log) = 1
    /\ Cardinality({i \in Idx : st[i] = "Success"}) = Len(missions) - 1
    /\ \A i \in Idx :
         fault[i] = "none" =>
             /\ st[i] = "Success"
             /\ files[missions[i].output] = "full"

C6_OneResolveFailure ==
    /\ <>Ended
    /\ []((Ended /\ OneResolveFails) => C6_Outcome)

\* A batch of four has ended with one resolve failure and three downloads.
C6_Witness ==
    /\ Ended
    /\ OneResolveFails
    /\ Len(missions) = NUMBER_OF_PARALLEL_MISSIONS
    /\ Cardinality({i \in Idx : st[i] = "Success"}) = 3
    /\ BagCardinality(log) = 1

\* C7 as stated: a mission that has completed while an earlier-submitted
\* one is still running can be counted at once: the orchestrator's step that
\* yields its result is possible.
C7_CompletionOrder ==
    \A i, j \in Idx :
        (/\ pc = "map"
         /\ i < j
         /\ st[i] \in Running
         /\ st[j] \in Returned
         /\ j \notin counted)
        => ENABLED (NextResult /\ j \in counted')

\* C7 as amended: the increments come in submission order: a mission is
\* counted only when it and every mission submitted before it have
\* returned and been counted, and the bar shows the number counted.
C7_SubmissionOrder ==
    /\ progress = Cardinality(counted)
    /\ \A k \in counted :
         /\ st[k] \in Returned
         /\ \A j \in Idx : j < k => j \in counted

\* A later mission has completed and waits uncounted for an earlier one
\* that is running, after the bar has already moved.
C7_Witness ==
    /\ pc = "map"
    /\ progress > 0
    /\ \E i, j \in Idx :
         /\ i < j
         /\ st[i] \in Running
         /\ st[j] \in Returned
         /\ j \notin counted

\* C8: a listing fetch that fails never ends the run: no error of
\* get_episodes leaves download().
C8_ListingNeverRaises ==
    error # "ClientError"

\* C9: every driver load_episode opened is quit when load_episode is left:
\* the open sessions belong to missions that are inside load_episode, so
\* they are never more than the resolves in flight, and none is open when
\* the batch has ended.
C9_SessionsTornDown ==
    /\ sessions \subseteq Resolving
    /\ Cardinality(sessions) <= Cardinality(Resolving)
    /\ Ended => sessions = {}

\* load_episode has been left by an error and by a return while another
\* mission's session is open.
C9_Witness ==
    \E i, j, k \in Idx :
        /\ fault[i] = "resolve"
        /\ j \in resolved
        /\ k \in sessions

\* C10: the step in which download_video meets a status other than 200 and
\* returns False leaves every output file as it was.
C10_NotOkLeavesFile ==
    [][\A i \in Idx :
         (st[i] = "download_video" /\ st'[i] = "DownloadFailed")
             => files' = files]_vars

\* A download has failed on its status and the file that was at its output
\* path before is still there.
C10_Witness ==
    \E i \in Idx :
        /\ st[i] = "DownloadFailed"
        /\ files[missions[i].output] = "old"

\* C11: once every mission is built, the process ends with the success
\* exit code whatever the missions did.
C11_ExitSuccess ==
    (Ended /\ error \notin {"ClientError", "OSError"})
        => ExitCode = EXIT_SUCCESS

\* C12: with first_season > last_season or a bound that is not positive,
\* main does no work and ends with a nonzero exit code.
InvalidRange ==
    \/ first_season > last_season
    \/ first_season < 1
    \/ last_season < 1

C12_RangeValidated ==
    InvalidRange =>
        /\ listed = <<>>
        /\ missions = <<>>
        /\ Ended => ExitCode # EXIT_SUCCESS

\* The entries of the listings so far, flattened: <<season, episode>> in
\* the order the seasons were listed and, within one, in listing order.
RECURSIVE Entries(_)
Entries(ls) ==
    IF ls = <<>> THEN <<>>
    ELSE LET last == ls[Len(ls)] IN
         Entries(SubSeq(ls, 1, Len(ls) - 1))
         \o [k \in 1..Len(last.episodes) |-> <<last.season, last.episodes[k]>>]

\* C13: the missions are exactly the listed entries, one mission each
\* (duplicates kept), seasons ascending from first_season, listing order
\* within a season, with the url and output of the entry; for the range
\* (2, 2) and the listing [1, 2] they are Season_2/Episode_1.mp4 and
\* Season_2/Episode_2.mp4.
C13_OneMissionPerEntry ==
    /\ \A j \in DOMAIN listed : listed[j].season = first_season + j - 1
    /\ Len(missions) = Len(Entries(listed))
    /\ \A k \in 1..Len(missions) :
         LET s == Entries(listed)[k][1]
             e == Entries(listed)[k][2]
         IN  /\ missions[k].season = s
             /\ missions[k].episode = e
             /\ missions[k].url =
                  <<"https://sdarot.tv/watch", show_id, "season", s,
                    "episode", e>>
             /\ missions[k].output = <<s, e>>
    /\ (/\ first_season = 2
        /\ last_season = 2
        /\ listed = <<[season |-> 2, episodes |-> <<1, 2>>]>>)
       => /\ Len(missions) = 2
          /\ missions[1].output = <<2, 1>>
          /\ missions[2].output = <<2, 2>>

\* The range (2, 2) with the listing [1, 2] has been built.
C13_Witness ==
    /\ first_season = 2
    /\ last_season = 2
    /\ listed = <<[season |-> 2, episodes |-> <<1, 2>>]>>
    /\ Len(missions) = 2

\* C14: a directory is created only by the builder, while no mission has
\* been submitted; for a directory that exists the step creates nothing and
\* cannot fail on it; every season's directory exists once the missions
\* are submitted; a failed creation ends the run with no mission started.
C14_DirsBeforePool ==
    /\ [][/\ dirs' # dirs => (pc = "build" /\ Idx = {} /\ dirs \subseteq dirs')
          /\ (pc = "build" /\ season <= last_season /\ season \in dirs)
               => (dirs' = dirs /\ error' # "OSError")]_vars
    /\ [](Idx # {} => \A s \in first_season..last_season : s \in dirs)
    /\ [](error = "OSError" => (pc = "raised" /\ Idx = {}))

\* The first season's directory was there from an earlier run and its
\* missions are built; the next season's os.mkdir failed and the run is
\* over with nothing started.
C14_Witness ==
    /\ files[<<first_season, 1>>] = "old"
    /\ Len(missions) > 0
    /\ error = "OSError"
    /\ pc = "raised"

\* C15: a season whose listing is empty adds no mission, and its directory
\* exists after the season was handled, as for every season.
C15_EmptySeasonHasDir ==
    \A j \in DOMAIN listed :
        /\ listed[j].season \in dirs
        /\ listed[j].episodes = <<>> =>
             \A k \in 1..Len(missions) :
                 missions[k].season # listed[j].season

\* A season with no episode, whose directory was not there at the start.
C15_Witness ==
    \E j \in DOMAIN listed :
        /\ listed[j].episodes = <<>>
        /\ files[<<listed[j].season, 1>>] = "absent"
        /\ listed[j].season \in dirs

\* C16: download_video of a mission is called with what that mission's own
\* load_episode returned, and with no other mission's cookies.
C16_OwnStream ==
    \A i \in Idx :
        /\ i \in download_calls =>
             /\ request[i] # NoStream
             /\ request[i] = stream[i]
        /\ request[i] # NoStream =>
             \A j \in Idx \ {i} :
                 stream[j] # NoStream =>
                     request[i].cookies # stream[j].cookies

\* Two missions for the same episode page download at the same time.
C16_Witness ==
    \E i, j \in Idx :
        /\ i # j
        /\ i \in Downloading
        /\ j \in Downloading
        /\ request[i] # NoStream
        /\ request[j] # NoStream
        /\ request[i].src = request[j].src

\* C17: the progress counter is 0 until the batch starts, moves only one
\* step up at a time, and never exceeds the number of missions that have
\* completed nor the number submitted.
C17_ProgressCounter ==
    /\ [](pc = "build" => progress = 0)
    /\ [](/\ progress <= Cardinality({i \in Idx : st[i] \in Completed})
          /\ progress <= Len(missions))
    /\ [][progress' = progress \/ progress' = progress + 1]_vars

\* The bar has moved twice and lags behind the completions.
C17_Witness ==
    /\ progress = 2
    /\ Cardinality({i \in Idx : st[i] \in Completed}) > progress

\* C18: two missions never write the same output file at the same time.
C18_OneWriter ==
    \A i, j \in Idx :
        (i # j /\ st[i] = "write" /\ st[j] = "write")
            => missions[i].output # missions[j].output
====
